---- MODULE Spec2Model ----
(***************************************************************************)
(* A model of script.py: the batch driver (main), the folder scanner       *)
(* (get_subfolders_to_process), the artifact classifier, the media         *)
(* uploader with its retry loop, the manifest insert, the URL back-fill    *)
(* and the marker file written per folder.  The filesystem is part of the  *)
(* state; the backend (table insert/update, blob upload, public URL) is    *)
(* external and answers nondeterministically.                              *)
(***************************************************************************)
EXTENDS Integers, Sequences, FiniteSets, TLC

(***************************************************************************)
(* Bounds of the model.                                                    *)
(***************************************************************************)
NumFolders == 2      \* subfolders of the root in the batch specification
MaxImages  == 2      \* image files of the folder in the single-folder specification
MaxRuns    == 2      \* batch runs (invocations of main) in one behaviour
MaxMtime   == 2      \* modification times are 1..MaxMtime
MaxTampers == 1      \* files changed by another process while a folder is processed

(***************************************************************************)
(* Program constants.                                                      *)
(***************************************************************************)
MaxRetries  == 3                \* max_retries of the three retry loops
MaxFileSize == 52428800         \* 50 * 1024 * 1024

(***************************************************************************)
(* File names.  A name is its stem, an index that tells image files apart, *)
(* and the sequence of its dot-suffixes: "upload_failed.json.backup" has   *)
(* exts <<".json", ".backup">>.                                            *)
(***************************************************************************)
Nm(stem, n, exts) == [stem |-> stem, n |-> n, exts |-> exts]

Suffix(name) ==
    IF name.exts = <<>> THEN "" ELSE name.exts[Len(name.exts)]

SuccessMarker == Nm("upload_success", 0, <<".json">>)
FailedMarker  == Nm("upload_failed", 0, <<".json">>)
DataJson      == Nm("data", 0, <<".json">>)
ExtraJson     == Nm("extra", 0, <<".json">>)
NotesTxt      == Nm("notes", 0, <<".txt">>)

ImageSuffixes == <<".jpg", ".PNG", ".jpeg">>
ImageName(i)  == Nm("img", i, <<ImageSuffixes[((i - 1) % Len(ImageSuffixes)) + 1]>>)

\* f"{result_file_path}.backup"
BackupName(name) == Nm(name.stem, name.n, Append(name.exts, ".backup"))

\* str.lower() on the suffixes the model uses
Lower(s) ==
    CASE s = ".PNG" -> ".png"
      [] s = ".JPG" -> ".jpg"
      [] OTHER -> s

(***************************************************************************)
(* JSON values, tagged with their Python type after json.load.  A dict is  *)
(* a set of <<key, value>> pairs.  Malformed stands for file text that     *)
(* json.load rejects.                                                      *)
(***************************************************************************)
JNull      == [t |-> "null", v |-> {}]
JStr(s)    == [t |-> "str", v |-> s]
JNum(k)    == [t |-> "int", v |-> k]
JDict(kv)  == [t |-> "dict", v |-> kv]
JList(seq) == [t |-> "list", v |-> seq]
Malformed  == [t |-> "malformed", v |-> {}]
NoContent  == [t |-> "bytes", v |-> {}]

ObjFull  == JDict({<<"device_id", JStr("dev-1")>>, <<"test_status", JStr("passed")>>,
                   <<"vendor", JStr("acme")>>})
ObjBare  == JDict({<<"serial", JStr("s-9")>>})
ArrObjs  == JList(<<ObjFull, ObjBare>>)
ArrMixed == JList(<<ObjFull, JNum(7)>>)
ArrEmpty == JList(<<>>)

HasKey(d, k) == \E p \in d.v : p[1] = k
\* dict.get(k, default)
Get(d, k, default) ==
    IF HasKey(d, k) THEN (CHOOSE p \in d.v : p[1] = k)[2] ELSE default

(***************************************************************************)
(* Files.  A folder is its modification time and a function from the names *)
(* of its files to [size, readable, content].                              *)
(***************************************************************************)
File(size, content) == [size |-> size, readable |-> TRUE, content |-> content]
ImageFile(size)     == File(size, NoContent)
JsonFile(content)   == File(1, content)
MarkerFile          == File(1, NoContent)

Names(fl) == DOMAIN fl.files
Exists(fl, name) == name \in Names(fl)

(***************************************************************************)
(* Sequences.                                                              *)
(***************************************************************************)
Range(seq) == {seq[i] : i \in 1..Len(seq)}

RECURSIVE SetToSeq(_)
SetToSeq(S) ==
    IF S = {} THEN <<>>
    ELSE LET x == CHOOSE y \in S : TRUE IN <<x>> \o SetToSeq(S \ {x})

\* the orders in which os.listdir may enumerate the entries S
Listings(S) ==
    {s \in [1..Cardinality(S) -> S] : \A i, j \in 1..Cardinality(S) : s[i] = s[j] => i = j}

\* mutant: the list is left in listing order
InsertAtEnd(sorted, x) == Append(sorted, x)

\* list.sort(key=lambda x: x[1], reverse=True): stable, so entries with equal
\* mod_time keep the order they had
RECURSIVE InsertDesc(_, _)
InsertDesc(sorted, x) ==
    IF sorted = <<>> THEN <<x>>
    ELSE IF sorted[1].mod_time >= x.mod_time
         THEN <<sorted[1]>> \o InsertDesc(Tail(sorted), x)
         ELSE <<x>> \o sorted

RECURSIVE SortByMtimeDesc(_)
SortByMtimeDesc(seq) ==
    IF seq = <<>> THEN <<>>
    ELSE InsertDesc(SortByMtimeDesc(SubSeq(seq, 1, Len(seq) - 1)), seq[Len(seq)])

(***************************************************************************)
(* get_subfolders_to_process: the per-item part of the scan.               *)
(***************************************************************************)
\* mutants: the marker name misspelt; either marker taken as "already processed"
AlreadyProcessedTypo(entry) == Exists(entry, Nm("upload_sucess", 0, <<".json">>))
AlreadyProcessedAnyMarker(entry) ==
    Exists(entry, SuccessMarker) \/ Exists(entry, FailedMarker)

\* os.path.exists(os.path.join(item_path, "upload_success.json"))
AlreadyProcessed(entry) == Exists(entry, SuccessMarker)

\* mutant: the marker check left out
ScanKeepsEveryDir(entry) == entry.isdir

\* whether the scan keeps the root entry: a directory without the success marker
ScanKeeps(entry) == entry.isdir /\ ~AlreadyProcessed(entry)

\* the scanner's result for the root listing `items` (a sequence of entry ids)
ScanResult(root, items) ==
    LET kept == SelectSeq(items, LAMBDA id : ScanKeeps(root[id]))
        tup  == [i \in 1..Len(kept) |-> [name |-> kept[i], mod_time |-> root[kept[i]].mtime]]
        srt  == SortByMtimeDesc(tup)
    IN  [i \in 1..Len(srt) |-> srt[i].name]

(***************************************************************************)
(* The artifact classifier: process_single_folder's json_files and         *)
(* get_image_files.                                                        *)
(***************************************************************************)
\* os.listdir(folder_path): one fixed enumeration order per set of names
ListDir(fl) == SetToSeq(Names(fl))

excluded_json_files == {SuccessMarker, FailedMarker}
image_extensions == {".jpg", ".jpeg", ".png", ".gif", ".bmp", ".tiff", ".webp"}

\* f.endswith('.json') and f not in excluded_json_files
IsManifest(name) == Suffix(name) = ".json" /\ name \notin excluded_json_files

JsonFiles(fl) == SelectSeq(ListDir(fl), IsManifest)

\* the liveness check of get_image_files: readable and non-empty
IsLiveImage(fl, name) ==
    /\ Lower(Suffix(name)) \in image_extensions
    /\ fl.files[name].readable
    /\ fl.files[name].size > 0

GetImageFiles(fl) == SelectSeq(ListDir(fl), LAMBDA name : IsLiveImage(fl, name))

(***************************************************************************)
(* upload_image_with_retry: the checks made before each upload attempt.    *)
(***************************************************************************)
Valid == "valid"

\* mutant: the size limit left out
PreUploadCheckNoLimit(fl, name) ==
    IF ~Exists(fl, name) THEN "File not found"
    ELSE IF ~fl.files[name].readable THEN "No read permission for file"
    ELSE IF fl.files[name].size = 0 THEN "File is empty"
    ELSE Valid

PreUploadCheck(fl, name) ==
    IF ~Exists(fl, name) THEN "File not found"
    ELSE IF ~fl.files[name].readable THEN "No read permission for file"
    ELSE IF fl.files[name].size = 0 THEN "File is empty"
    ELSE IF fl.files[name].size > MaxFileSize THEN "File too large"
    ELSE Valid

\* mutant: 2 * attempt for 2 ** attempt
WaitTimeDouble(attempt) == 2 * attempt

\* mutant: a constant wait of one second
WaitTimeConstant(attempt) == 1

\* wait_time = 2 ** attempt
WaitTime(attempt) == 2 ^ attempt

\* if attempt < max_retries - 1: sleep and retry, else give up
MayRetry(attempt) == attempt < MaxRetries - 1

(***************************************************************************)
(* The manifest: read, validate_json_structure, and the records built for  *)
(* insertion.                                                              *)
(***************************************************************************)
None == "None"

ValidateJsonStructure(data) ==
    IF data.t \notin {"dict", "list"} THEN "Invalid JSON structure: must be dict or list"
    ELSE IF data.t = "list" /\ data.v = <<>> THEN "Empty JSON array"
    ELSE IF data.t = "list" /\ \E i \in 1..Len(data.v) : data.v[i].t # "dict"
         THEN "Invalid JSON array: all items must be objects"
    ELSE None

\* the error the read of the single manifest file ends with, None when
\* json_data is loaded and valid
ReadManifest(fl, name) ==
    LET f == fl.files[name] IN
    IF ~f.readable THEN "No read permission for JSON file"
    ELSE IF f.size = 0 THEN "JSON file is empty"
    ELSE IF f.content = Malformed THEN "Error decoding JSON"
    ELSE ValidateJsonStructure(f.content)

\* mutant: the raw data keeps only the keys that have a column of their own
KnownKeys == {"data_type", "device_id", "device_name", "device_type", "test_results",
              "test_date", "test_status", "upload_batch", "notes", "metadata"}
BuildRecordKnownKeys(folder_name, item) ==
    [folder_name  |-> folder_name,
     data_type    |-> Get(item, "data_type", JStr("device_test")),
     data         |-> JDict({p \in item.v : p[1] \in KnownKeys}),
     device_id    |-> Get(item, "device_id", JNull),
     device_name  |-> Get(item, "device_name", JNull),
     device_type  |-> Get(item, "device_type", JNull),
     test_results |-> Get(item, "test_results", JNull),
     test_date    |-> Get(item, "test_date", JNull),
     test_status  |-> Get(item, "test_status", JStr("pending")),
     upload_batch |-> Get(item, "upload_batch", JNull),
     notes        |-> Get(item, "notes", JNull),
     metadata     |-> Get(item, "metadata", JDict({}))]

\* the record built for one manifest object (db_record)
BuildRecord(folder_name, item) ==
    [folder_name  |-> folder_name,
     data_type    |-> Get(item, "data_type", JStr("device_test")),
     data         |-> item,
     device_id    |-> Get(item, "device_id", JNull),
     device_name  |-> Get(item, "device_name", JNull),
     device_type  |-> Get(item, "device_type", JNull),
     test_results |-> Get(item, "test_results", JNull),
     test_date    |-> Get(item, "test_date", JNull),
     test_status  |-> Get(item, "test_status", JStr("pending")),
     upload_batch |-> Get(item, "upload_batch", JNull),
     notes        |-> Get(item, "notes", JNull),
     metadata     |-> Get(item, "metadata", JDict({}))]

DbRecords(folder_name, json_data) ==
    IF json_data.t = "dict" THEN <<BuildRecord(folder_name, json_data)>>
    ELSE IF json_data.t = "list"
    THEN LET objs == SelectSeq(json_data.v, LAMBDA item : item.t = "dict")
         IN  [i \in 1..Len(objs) |-> BuildRecord(folder_name, objs[i])]
    ELSE <<>>

(***************************************************************************)
(* The finalize stage of process_single_folder.                            *)
(***************************************************************************)
\* mutant: failed media are not looked at
OverallSuccessIgnoresFailures(json_ok, n_failed, n_images, n_uploaded) ==
    json_ok /\ (n_images = 0 \/ n_uploaded > 0)

OverallSuccess(json_ok, n_failed, n_images, n_uploaded) ==
    json_ok /\ n_failed = 0 /\ (n_images = 0 \/ n_uploaded > 0)

\* "upload_success.json" if overall_success else "upload_failed.json"
MarkerFilename(ok) == IF ok THEN SuccessMarker ELSE FailedMarker

(***************************************************************************)
(* State.                                                                  *)
(***************************************************************************)
VARIABLES
    fs,                       \* the root directory: entry id -> [isdir, mtime, files]
    run,                      \* the number of the batch run (invocation of main)
    pc,                       \* where main is
    exit_code,                \* what main returned, Running until it returns
    folders_to_process,       \* main: the scanner's result (folder ids)
    idx,                      \* main: position of the for loop in folders_to_process
    total_folders_processed,
    successful_folders,
    failed_folders,
    attempt,                  \* the loop variable of the retry loop being run
    json_files,               \* process_single_folder's locals
    image_files,
    json_upload_success,
    json_error,
    records_inserted,
    img,                      \* upload_images_to_bucket: position in image_files
    uploaded_images,
    failed_images,
    image_urls,
    overall_success,
    filename,
    made,                     \* the kinds of backend call made for the folder in process
    retry_log,                \* the retry loop last entered: its calls and time.sleep arguments
    update_result,            \* how update_records_with_images ended for that folder
    touched,                  \* folders a backend call was made for in this run
    called,                   \* folders passed to process_single_folder in this run
    run_success,              \* folders process_single_folder returned True for, this run
    run_written,              \* of those, the ones whose write_result_file returned True
    prior_success,            \* the same two sets for the earlier runs
    prior_written,
    marked,                   \* folders whose latest write_result_file returned True
    interrupted,              \* where this run got a KeyboardInterrupt, "no" if nowhere
    tampers                   \* files changed by another process so far

driver == <<run, exit_code, folders_to_process, idx, total_folders_processed,
            successful_folders, failed_folders>>
locals == <<json_files, image_files, json_upload_success, json_error, records_inserted,
            img, uploaded_images, failed_images, image_urls, overall_success, filename>>
folder_log == <<made, retry_log, update_result>>
run_log == <<touched, called, run_success, run_written, prior_success, prior_written,
            marked>>
signals == <<interrupted, tampers>>
vars == <<fs, pc, attempt, driver, locals, folder_log, run_log, signals>>

Running == -1

\* the folder process_single_folder is working on
cur == folders_to_process[idx]
folder == fs[cur]

\* the log of a retry loop: which loop (for an upload, of which image), the
\* backend calls it has made, the waits between them, what the last call was
\* given and how many rows its response held
NewLog(op, file) ==
    [op |-> op, file |-> file, calls |-> 0, sleeps |-> <<>>, args |-> <<>>, rows |-> 0]
NoLog == NewLog("none", 0)

\* the log of loop (op, file): the current one if that loop is running, else new
LogOf(op, file) ==
    IF retry_log.op = op /\ retry_log.file = file THEN retry_log ELSE NewLog(op, file)

\* one more backend call of the loop, given `args`, answered with `rows` rows
\* and followed by the sleeps `waits`
Logged(op, file, args, rows, waits) ==
    [LogOf(op, file) EXCEPT !.calls = @ + 1, !.sleeps = @ \o waits,
                            !.args = args, !.rows = rows]

\* the values of process_single_folder's locals before it assigns them, and
\* the empty log of a folder: the state of a call that has not started or has
\* ended
LocalsCleared ==
    /\ made' = {}
    /\ retry_log' = NoLog
    /\ update_result' = "not run"
    /\ json_files' = <<>>
    /\ image_files' = <<>>
    /\ json_upload_success' = FALSE
    /\ json_error' = None
    /\ records_inserted' = 0
    /\ img' = 0
    /\ uploaded_images' = <<>>
    /\ failed_images' = <<>>
    /\ image_urls' = <<>>
    /\ overall_success' = FALSE
    /\ filename' = FailedMarker

(***************************************************************************)
(* Initial states.  The root holds one plain file (entry 0) and folders.   *)
(***************************************************************************)
Dir(mtime, files) == [isdir |-> TRUE, mtime |-> mtime, files |-> files]
PlainFile == [isdir |-> FALSE, mtime |-> 1, files |-> <<>>]

\* the manifest part of a folder
ManifestChoices ==
    {<<>>} \cup
    {DataJson :> JsonFile(c) : c \in {ObjFull, ArrObjs, ArrMixed, JNum(7), Malformed}} \cup
    {DataJson :> JsonFile(ObjFull) @@ ExtraJson :> JsonFile(ObjBare)}

\* the image part: img1..imgK for a K up to n, each at the size limit or above
\* it (an image becomes empty, unreadable or missing by Tamper)
ImageSizes == {MaxFileSize, MaxFileSize + 1}
ImageChoices(n) ==
    UNION {[{ImageName(i) : i \in 1..k} -> ImageSizes] : k \in 0..n}
ImagePart(sizes) == [name \in DOMAIN sizes |-> ImageFile(sizes[name])]

\* a folder no run has processed yet
RichContents ==
    {m @@ ImagePart(i) @@ NotesTxt :> File(1, NoContent) :
        m \in ManifestChoices, i \in ImageChoices(MaxImages)}

LeanContents ==
    {NotesTxt :> File(1, NoContent),
     DataJson :> JsonFile(ObjFull) @@ ImageName(1) :> ImageFile(MaxFileSize),
     DataJson :> JsonFile(ObjFull) @@ SuccessMarker :> MarkerFile}

InitProgram ==
    /\ run = 1
    /\ pc = "connect"
    /\ exit_code = Running
    /\ folders_to_process = <<>>
    /\ idx = 0
    /\ total_folders_processed = 0
    /\ successful_folders = 0
    /\ failed_folders = 0
    /\ attempt = 0
    /\ json_files = <<>>
    /\ image_files = <<>>
    /\ json_upload_success = FALSE
    /\ json_error = None
    /\ records_inserted = 0
    /\ img = 0
    /\ uploaded_images = <<>>
    /\ failed_images = <<>>
    /\ image_urls = <<>>
    /\ overall_success = FALSE
    /\ filename = FailedMarker
    /\ made = {}
    /\ retry_log = NoLog
    /\ update_result = "not run"
    /\ touched = {}
    /\ called = <<>>
    /\ run_success = {}
    /\ run_written = {}
    /\ prior_success = {}
    /\ prior_written = {}
    /\ marked = {}
    /\ interrupted = "no"
    /\ tampers = 0

\* a root of NumFolders folders, for the batch driver
Init ==
    /\ \E mt \in [1..NumFolders -> 1..MaxMtime], fc \in [1..NumFolders -> LeanContents] :
          fs = [id \in 0..NumFolders |->
                   IF id = 0 THEN PlainFile ELSE Dir(mt[id], fc[id])]
    /\ InitProgram

\* a root of one folder with any of the contents, for process_single_folder
InitFolder ==
    /\ \E fc \in RichContents : fs = (0 :> PlainFile) @@ (1 :> Dir(1, fc))
    /\ InitProgram

(***************************************************************************)
(* main, before the loop.                                                  *)
(***************************************************************************)
\* main returns `code`
Return(code) ==
    /\ pc' = "done"
    /\ exit_code' = code

\* one more test query of validate_supabase_connection, `rows` = 1 if answered
ConnectCalled(rows, waits) ==
    /\ retry_log' = Logged("connect", 0, <<>>, rows, waits)
    /\ UNCHANGED <<made, update_result>>

\* mutant: main goes on to the scan although the connection was not validated
ConnectErrorIgnored ==
    /\ pc = "connect"
    /\ IF MayRetry(attempt)
       THEN /\ ConnectCalled(0, <<WaitTime(attempt)>>)
            /\ attempt' = attempt + 1
            /\ UNCHANGED pc
       ELSE /\ ConnectCalled(0, <<>>)
            /\ pc' = "scan"
            /\ attempt' = 0
    /\ UNCHANGED <<fs, driver, locals, run_log, signals>>

\* validate_supabase_connection: an attempt succeeds
ConnectOk ==
    /\ pc = "connect"
    /\ ConnectCalled(1, <<>>)
    /\ pc' = "scan"
    /\ attempt' = 0
    /\ UNCHANGED <<fs, driver, locals, run_log, signals>>

\* an attempt raises: back off and retry, or give up and main returns 1
ConnectError ==
    /\ pc = "connect"
    /\ IF MayRetry(attempt)
       THEN /\ ConnectCalled(0, <<WaitTime(attempt)>>)
            /\ attempt' = attempt + 1
            /\ UNCHANGED <<pc, exit_code>>
       ELSE /\ ConnectCalled(0, <<>>)
            /\ Return(1)
            /\ UNCHANGED attempt
    /\ UNCHANGED <<fs, run, folders_to_process, idx, total_folders_processed,
                   successful_folders, failed_folders, locals, run_log, signals>>

\* get_subfolders_to_process on a root that is missing, no directory or unreadable
ScanFails ==
    /\ pc = "scan"
    /\ Return(1)
    /\ UNCHANGED <<fs, run, folders_to_process, idx, total_folders_processed,
                   successful_folders, failed_folders, attempt, locals, folder_log,
                   run_log, signals>>

\* get_subfolders_to_process: os.listdir enumerates the root in some order
Scan ==
    /\ pc = "scan"
    /\ \E items \in Listings(DOMAIN fs) :
          folders_to_process' = ScanResult(fs, items)
    /\ pc' = "scanned"
    /\ UNCHANGED <<fs, run, exit_code, idx, total_folders_processed, successful_folders,
                   failed_folders, attempt, locals, folder_log, run_log, signals>>

\* if not folders_to_process: return 0; else the counters are set up
CheckEmpty ==
    /\ pc = "scanned"
    /\ IF folders_to_process = <<>>
       THEN Return(0)
       ELSE pc' = "loop" /\ UNCHANGED exit_code
    /\ total_folders_processed' = 0
    /\ successful_folders' = 0
    /\ failed_folders' = 0
    /\ idx' = 0
    /\ UNCHANGED <<fs, run, folders_to_process, attempt, locals, folder_log, run_log,
                   signals>>

(***************************************************************************)
(* main: the for loop.                                                     *)
(***************************************************************************)
\* the next folder is taken and process_single_folder is called
LoopNext ==
    /\ pc = "loop"
    /\ idx < Len(folders_to_process)
    /\ idx' = idx + 1
    /\ total_folders_processed' = total_folders_processed + 1
    /\ called' = Append(called, folders_to_process[idx + 1])
    /\ pc' = "enter"
    /\ attempt' = 0
    /\ LocalsCleared
    /\ UNCHANGED <<fs, run, exit_code, folders_to_process, successful_folders,
                   failed_folders, touched, run_success, run_written, prior_success,
                   prior_written, marked, signals>>

\* the loop is exhausted
LoopEnd ==
    /\ pc = "loop"
    /\ idx = Len(folders_to_process)
    /\ pc' = "summary"
    /\ UNCHANGED <<fs, driver, attempt, locals, folder_log, run_log, signals>>

\* mutant: a failed back-fill makes the folder count as failed
ReturnToMainUnlessBackfillFailed(value) ==
    LET counted == value /\ update_result \in {"not run", "updated"} IN
    /\ pc' = "loop"
    /\ successful_folders' = IF counted THEN successful_folders + 1 ELSE successful_folders
    /\ failed_folders' = IF counted THEN failed_folders ELSE failed_folders + 1
    /\ run_success' = IF counted THEN run_success \cup {cur} ELSE run_success
    /\ attempt' = 0
    /\ LocalsCleared
    /\ UNCHANGED <<run, exit_code, folders_to_process, idx, total_folders_processed>>

\* mutant: the loop is left when a folder returns False
ReturnToMainHaltOnFailure(value) ==
    /\ pc' = IF value THEN "loop" ELSE "summary"
    /\ successful_folders' = IF value THEN successful_folders + 1 ELSE successful_folders
    /\ failed_folders' = IF value THEN failed_folders ELSE failed_folders + 1
    /\ run_success' = IF value THEN run_success \cup {cur} ELSE run_success
    /\ attempt' = 0
    /\ LocalsCleared
    /\ UNCHANGED <<run, exit_code, folders_to_process, idx, total_folders_processed>>

\* process_single_folder returns `value` to main, which counts it
ReturnToMain(value) ==
    /\ pc' = "loop"
    /\ successful_folders' = IF value THEN successful_folders + 1 ELSE successful_folders
    /\ failed_folders' = IF value THEN failed_folders ELSE failed_folders + 1
    /\ run_success' = IF value THEN run_success \cup {cur} ELSE run_success
    /\ attempt' = 0
    /\ LocalsCleared
    /\ UNCHANGED <<run, exit_code, folders_to_process, idx, total_folders_processed>>

\* mutant: the failed folders are not looked at
ExitCodeAlwaysZero(total, failed) == 0

\* the final summary and main's return value
ExitCode(total, failed) == IF total > 0 /\ failed > 0 THEN 1 ELSE 0

Summary ==
    /\ pc = "summary"
    /\ Return(ExitCode(total_folders_processed, failed_folders))
    /\ UNCHANGED <<fs, run, folders_to_process, idx, total_folders_processed,
                   successful_folders, failed_folders, attempt, locals, folder_log,
                   run_log, signals>>

(***************************************************************************)
(* process_single_folder: access check, classification, manifest stage.    *)
(***************************************************************************)
\* the folder is gone or unreadable: UploadError, caught, return False
EnterDenied ==
    /\ pc = "enter"
    /\ ReturnToMain(FALSE)
    /\ UNCHANGED <<fs, touched, called, run_written, prior_success, prior_written,
                   marked, signals>>

\* json_files and image_files are taken from the folder's listing
Classify ==
    /\ pc = "enter"
    /\ json_files' = JsonFiles(folder)
    /\ image_files' = GetImageFiles(folder)
    /\ pc' = "manifest"
    /\ UNCHANGED <<fs, driver, attempt, json_upload_success, json_error, records_inserted,
                   img, uploaded_images, failed_images, image_urls, overall_success,
                   filename, folder_log, run_log, signals>>

\* mutant: with several manifest files the first one is taken
ManifestErrorFirstOfMany(fl, files) ==
    IF Len(files) = 0 THEN "No JSON files found in folder"
    ELSE IF ReadManifest(fl, files[1]) # None THEN ReadManifest(fl, files[1])
    ELSE IF DbRecords(0, fl.files[files[1]].content) = <<>> THEN "No valid records found in JSON"
    ELSE None

\* what the manifest stage records without calling the backend: the error, or
\* None when there are records to insert
ManifestError(fl, files) ==
    IF Len(files) = 0 THEN "No JSON files found in folder"
    ELSE IF Len(files) > 1 THEN "Multiple JSON files found"
    ELSE IF ReadManifest(fl, files[1]) # None THEN ReadManifest(fl, files[1])
    ELSE IF DbRecords(0, fl.files[files[1]].content) = <<>> THEN "No valid records found in JSON"
    ELSE None

\* mutant: the media stage is left out
ToMediaSkipped ==
    /\ pc' = "finalize"
    /\ img' = 1
    /\ attempt' = 0

\* the media stage starts at the first image
ToMedia ==
    /\ pc' = "media"
    /\ img' = 1
    /\ attempt' = 0

\* the manifest stage ends with an error before any insert
ManifestRejected ==
    /\ pc = "manifest"
    /\ ManifestError(folder, json_files) # None
    /\ json_error' = ManifestError(folder, json_files)
    /\ ToMedia
    /\ UNCHANGED <<fs, driver, json_files, image_files, json_upload_success,
                   records_inserted, uploaded_images, failed_images, image_urls,
                   overall_success, filename, folder_log, run_log, signals>>

\* db_records is not empty: insert_data_with_retry is called
ManifestReady ==
    /\ pc = "manifest"
    /\ ManifestError(folder, json_files) = None
    /\ pc' = "insert"
    /\ attempt' = 0
    /\ UNCHANGED <<fs, driver, locals, folder_log, run_log, signals>>

\* the records of the single manifest
db_records == DbRecords(cur, folder.files[json_files[1]].content)

\* one more call of table(...).insert(records).execute()
InsertCalled(rows, waits) ==
    /\ made' = made \cup {"insert"}
    /\ retry_log' = Logged("insert", 0, db_records, rows, waits)
    /\ touched' = touched \cup {cur}

\* response.data of an insert that persisted rows: some or all of the records
ReturnedRows(records) == 1..Len(records)

\* the insert returns rows: success, with len(response.data)
InsertOk ==
    /\ pc = "insert"
    /\ \E rows \in ReturnedRows(db_records) :
          /\ InsertCalled(rows, <<>>)
          /\ records_inserted' = rows
    /\ json_upload_success' = TRUE
    /\ ToMedia
    /\ UNCHANGED <<fs, driver, json_files, image_files, json_error, uploaded_images,
                   failed_images, image_urls, overall_success, filename, update_result,
                   called, run_success, run_written, prior_success, prior_written,
                   marked, signals>>

\* mutant: an insert that returns no rows is taken as a success
InsertNoDataAccepted ==
    /\ pc = "insert"
    /\ InsertCalled(0, <<>>)
    /\ json_upload_success' = TRUE
    /\ ToMedia
    /\ UNCHANGED <<fs, driver, json_files, image_files, json_error, records_inserted,
                   uploaded_images, failed_images, image_urls, overall_success,
                   filename, update_result, called, run_success, run_written,
                   prior_success, prior_written, marked, signals>>

\* the insert returns without error and without rows: no retry
InsertNoData ==
    /\ pc = "insert"
    /\ InsertCalled(0, <<>>)
    /\ json_error' = "Database insert failed: No data returned from insert operation"
    /\ ToMedia
    /\ UNCHANGED <<fs, driver, json_files, image_files, json_upload_success,
                   records_inserted, uploaded_images, failed_images, image_urls,
                   overall_success, filename, update_result, called, run_success,
                   run_written, prior_success, prior_written, marked, signals>>

\* mutant: giving up after the last attempt records no error
InsertErrorUnrecorded ==
    /\ pc = "insert"
    /\ IF MayRetry(attempt)
       THEN /\ InsertCalled(0, <<WaitTime(attempt)>>)
            /\ attempt' = attempt + 1
            /\ UNCHANGED <<pc, img>>
       ELSE /\ InsertCalled(0, <<>>)
            /\ ToMedia
    /\ UNCHANGED <<fs, driver, json_files, image_files, json_upload_success, json_error,
                   records_inserted, uploaded_images, failed_images, image_urls,
                   overall_success, filename, update_result, called, run_success,
                   run_written, prior_success, prior_written, marked, signals>>

\* the insert raises: back off and retry, or give up
InsertError ==
    /\ pc = "insert"
    /\ IF MayRetry(attempt)
       THEN /\ InsertCalled(0, <<WaitTime(attempt)>>)
            /\ attempt' = attempt + 1
            /\ UNCHANGED <<pc, img, json_error>>
       ELSE /\ InsertCalled(0, <<>>)
            /\ json_error' = "Database insert failed: All database insert attempts failed"
            /\ ToMedia
    /\ UNCHANGED <<fs, driver, json_files, image_files, json_upload_success,
                   records_inserted, uploaded_images, failed_images, image_urls,
                   overall_success, filename, update_result, called, run_success,
                   run_written, prior_success, prior_written, marked, signals>>

(***************************************************************************)
(* upload_images_to_bucket and upload_image_with_retry.                    *)
(***************************************************************************)
image_file == image_files[img]

StoragePath(folder_name, name) == [folder_name |-> folder_name, filename |-> name]
PublicUrl(storage_path) == [url_of |-> storage_path]

\* mutant: the loop is left after the first file
NextImageAbort ==
    /\ img' = Len(image_files) + 1
    /\ attempt' = 0
    /\ UNCHANGED pc

\* the for loop of upload_images_to_bucket moves to the next image
NextImage ==
    /\ img' = img + 1
    /\ attempt' = 0
    /\ UNCHANGED pc

\* one more call of storage.from_(bucket).upload(...)
UploadCalled(waits) ==
    /\ made' = made \cup {"upload"}
    /\ retry_log' = Logged("upload", img, StoragePath(cur, image_file), 0, waits)
    /\ touched' = touched \cup {cur}

InMedia == pc = "media" /\ img <= Len(image_files)

\* the file fails a check made before the upload: failed at once, no retry
UploadInvalid ==
    /\ InMedia
    /\ PreUploadCheck(folder, image_file) # Valid
    /\ retry_log' = LogOf("upload", img)
    /\ failed_images' = Append(failed_images,
           [filename |-> image_file, error |-> PreUploadCheck(folder, image_file)])
    /\ NextImage
    /\ UNCHANGED <<fs, driver, json_files, image_files, json_upload_success, json_error,
                   records_inserted, uploaded_images, image_urls, overall_success,
                   filename, made, update_result, run_log, signals>>

\* the upload succeeds and the public URL is returned
UploadOk ==
    /\ InMedia
    /\ PreUploadCheck(folder, image_file) = Valid
    /\ UploadCalled(<<>>)
    /\ uploaded_images' = Append(uploaded_images,
           [filename     |-> image_file,
            storage_path |-> StoragePath(cur, image_file),
            public_url   |-> PublicUrl(StoragePath(cur, image_file)),
            size_bytes   |-> folder.files[image_file].size])
    /\ image_urls' = Append(image_urls, PublicUrl(StoragePath(cur, image_file)))
    /\ NextImage
    /\ UNCHANGED <<fs, driver, json_files, image_files, json_upload_success, json_error,
                   records_inserted, failed_images, overall_success, filename,
                   update_result, called, run_success, run_written, prior_success,
                   prior_written, marked, signals>>

\* the upload succeeds and get_public_url returns nothing: failed, no retry
UploadNoUrl ==
    /\ InMedia
    /\ PreUploadCheck(folder, image_file) = Valid
    /\ UploadCalled(<<>>)
    /\ failed_images' = Append(failed_images,
           [filename |-> image_file, error |-> "Failed to get public URL"])
    /\ NextImage
    /\ UNCHANGED <<fs, driver, json_files, image_files, json_upload_success, json_error,
                   records_inserted, uploaded_images, image_urls, overall_success,
                   filename, update_result, called, run_success, run_written,
                   prior_success, prior_written, marked, signals>>

\* the upload raises: back off and retry, or give up on the file
UploadError ==
    /\ InMedia
    /\ PreUploadCheck(folder, image_file) = Valid
    /\ IF MayRetry(attempt)
       THEN /\ UploadCalled(<<WaitTime(attempt)>>)
            /\ attempt' = attempt + 1
            /\ UNCHANGED <<pc, img, failed_images>>
       ELSE /\ UploadCalled(<<>>)
            /\ failed_images' = Append(failed_images,
                   [filename |-> image_file, error |-> "All upload attempts failed"])
            /\ NextImage
    /\ UNCHANGED <<fs, driver, json_files, image_files, json_upload_success, json_error,
                   records_inserted, uploaded_images, image_urls, overall_success,
                   filename, update_result, called, run_success, run_written,
                   prior_success, prior_written, marked, signals>>

\* Another process deletes, truncates or locks an image between its
\* classification and its upload.  The file is taken not to change while
\* upload_image_with_retry works on it: the change comes before the first attempt.
Tampered(files, name, how) ==
    CASE how = "delete"   -> [n \in DOMAIN files \ {name} |-> files[n]]
      [] how = "truncate" -> [files EXCEPT ![name].size = 0]
      [] how = "lock"     -> [files EXCEPT ![name].readable = FALSE]

Tamper ==
    /\ InMedia
    /\ attempt = 0
    /\ tampers < MaxTampers
    /\ Exists(folder, image_file)
    /\ \E how \in {"delete", "truncate", "lock"} :
          fs' = [fs EXCEPT ![cur].files = Tampered(@, image_file, how)]
    /\ tampers' = tampers + 1
    /\ UNCHANGED <<pc, attempt, driver, locals, folder_log, run_log, interrupted>>

\* upload_images_to_bucket returns
MediaDone ==
    /\ pc = "media"
    /\ img > Len(image_files)
    /\ pc' = "backfill"
    /\ attempt' = 0
    /\ UNCHANGED <<fs, driver, locals, folder_log, run_log, signals>>

(***************************************************************************)
(* The back-fill of the image URLs: update_records_with_images.            *)
(***************************************************************************)
\* mutant: the manifest insert is not looked at
BackfillDueAnyUpload(json_ok, urls) == urls # <<>>

\* if json_upload_success and image_urls
BackfillDue(json_ok, urls) == json_ok /\ urls # <<>>

BackfillSkipped ==
    /\ pc = "backfill"
    /\ ~BackfillDue(json_upload_success, image_urls)
    /\ pc' = "finalize"
    /\ UNCHANGED <<fs, driver, attempt, locals, folder_log, run_log, signals>>

\* one more call of table(...).update({'images': image_urls}).eq('folder_name', ...)
UpdateCalled(rows, waits) ==
    /\ made' = made \cup {"update"}
    /\ retry_log' = Logged("update", 0, [folder_name |-> cur, images |-> image_urls],
                           rows, waits)
    /\ touched' = touched \cup {cur}

UpdateEnds(how) ==
    /\ update_result' = how
    /\ pc' = "finalize"
    /\ attempt' = 0

UpdateOk ==
    /\ pc = "backfill"
    /\ BackfillDue(json_upload_success, image_urls)
    /\ UpdateCalled(1, <<>>)
    /\ UpdateEnds("updated")
    /\ UNCHANGED <<fs, driver, locals, called, run_success, run_written, prior_success,
                   prior_written, marked, signals>>

UpdateNoData ==
    /\ pc = "backfill"
    /\ BackfillDue(json_upload_success, image_urls)
    /\ UpdateCalled(0, <<>>)
    /\ UpdateEnds("No records updated")
    /\ UNCHANGED <<fs, driver, locals, called, run_success, run_written, prior_success,
                   prior_written, marked, signals>>

UpdateError ==
    /\ pc = "backfill"
    /\ BackfillDue(json_upload_success, image_urls)
    /\ IF MayRetry(attempt)
       THEN /\ UpdateCalled(0, <<WaitTime(attempt)>>)
            /\ attempt' = attempt + 1
            /\ UNCHANGED <<pc, update_result>>
       ELSE /\ UpdateCalled(0, <<>>)
            /\ UpdateEnds("All update attempts failed")
    /\ UNCHANGED <<fs, driver, locals, called, run_success, run_written, prior_success,
                   prior_written, marked, signals>>

(***************************************************************************)
(* Finalize: overall_success, the result data, the marker file.            *)
(***************************************************************************)
Finalize ==
    /\ pc = "finalize"
    /\ overall_success' = OverallSuccess(json_upload_success, Len(failed_images),
                                         Len(image_files), Len(uploaded_images))
    /\ filename' = MarkerFilename(OverallSuccess(json_upload_success, Len(failed_images),
                                                 Len(image_files), Len(uploaded_images)))
    /\ pc' = "write"
    /\ UNCHANGED <<fs, driver, attempt, json_files, image_files, json_upload_success,
                   json_error, records_inserted, img, uploaded_images, failed_images,
                   image_urls, folder_log, run_log, signals>>

\* result_data, without the metadata and the preview
result_data ==
    [json_upload |->
        [success          |-> json_upload_success,
         filename         |-> IF json_files # <<>> THEN <<json_files[1]>> ELSE <<>>,
         records_inserted |-> records_inserted,
         error            |-> json_error],
     image_upload |->
        [total_images       |-> Len(image_files),
         successful_uploads |-> Len(uploaded_images),
         failed_uploads     |-> Len(failed_images),
         uploaded_images    |-> uploaded_images,
         failed_images      |-> failed_images],
     summary |->
        [overall_success       |-> overall_success,
         total_files_processed |-> Len(json_files) + Len(image_files),
         successful_operations |-> (IF json_upload_success THEN 1 ELSE 0) + Len(uploaded_images),
         failed_operations     |-> (IF json_error # None THEN 1 ELSE 0) + Len(failed_images)]]

\* write_result_file, "Create backup if file exists": os.rename to <name>.backup
WithBackup(files, name) ==
    IF name \in DOMAIN files
    THEN [n \in (DOMAIN files \ {name}) \cup {BackupName(name)} |->
             IF n = BackupName(name) THEN files[name] ELSE files[n]]
    ELSE files

\* the file is created with `content`
WithFile(files, name, content) ==
    [n \in DOMAIN files \cup {name} |-> IF n = name THEN File(1, content) ELSE files[n]]

\* the files of the folder after write_result_file, by how the write went
AfterWrite(files, name, how) ==
    CASE how = "denied"      -> files
      [] how = "open failed" -> WithBackup(files, name)
      [] how = "partial"     -> WithFile(WithBackup(files, name), name, NoContent)
      [] how = "written"     -> WithFile(WithBackup(files, name), name, NoContent)

\* write_result_file returns True only when the file was written and read back
ResultWritten(how) == how = "written"

\* mutant: a marker that could not be written makes the folder count as failed
WriteResultReturnsWritten ==
    /\ pc = "write"
    /\ \E how \in {"denied", "open failed", "partial", "written"} :
          /\ fs' = [fs EXCEPT ![cur].files = AfterWrite(@, filename, how)]
          /\ run_written' = IF ResultWritten(how) /\ overall_success
                            THEN run_written \cup {cur} ELSE run_written
          /\ marked' = IF ResultWritten(how) THEN marked \cup {cur} ELSE marked \ {cur}
          /\ ReturnToMain(overall_success /\ ResultWritten(how))
    /\ UNCHANGED <<touched, called, prior_success, prior_written, signals>>

\* write_result_file runs (with any outcome) and process_single_folder
\* returns overall_success
WriteResult ==
    /\ pc = "write"
    /\ \E how \in {"denied", "open failed", "partial", "written"} :
          /\ fs' = [fs EXCEPT ![cur].files = AfterWrite(@, filename, how)]
          /\ run_written' = IF ResultWritten(how) /\ overall_success
                            THEN run_written \cup {cur} ELSE run_written
          /\ marked' = IF ResultWritten(how) THEN marked \cup {cur} ELSE marked \ {cur}
    /\ ReturnToMain(overall_success)
    /\ UNCHANGED <<touched, called, prior_success, prior_written, signals>>

(***************************************************************************)
(* KeyboardInterrupt.  It is no Exception, so no except Exception clause   *)
(* of the functions catches it: it reaches main.                           *)
(***************************************************************************)
InFolder == pc \in {"enter", "manifest", "insert", "media", "backfill", "finalize", "write"}

\* raised inside process_single_folder: main's loop catches it and breaks
InterruptInFolder ==
    /\ InFolder
    /\ pc' = "summary"
    /\ attempt' = 0
    /\ interrupted' = "folder"
    /\ LocalsCleared
    /\ UNCHANGED <<fs, driver, run_log, tampers>>

\* raised elsewhere in main: the outer handler returns 1
InterruptInMain ==
    /\ pc \in {"connect", "scan", "scanned", "loop", "summary"}
    /\ Return(1)
    /\ interrupted' = "main"
    /\ UNCHANGED <<fs, run, folders_to_process, idx, total_folders_processed,
                   successful_folders, failed_folders, attempt, locals, folder_log,
                   run_log, tampers>>

(***************************************************************************)
(* The script is run again over the same root.                             *)
(***************************************************************************)
NextRun ==
    /\ pc = "done"
    /\ run < MaxRuns
    /\ run' = run + 1
    /\ pc' = "connect"
    /\ exit_code' = Running
    /\ folders_to_process' = <<>>
    /\ idx' = 0
    /\ total_folders_processed' = 0
    /\ successful_folders' = 0
    /\ failed_folders' = 0
    /\ attempt' = 0
    /\ LocalsCleared
    /\ touched' = {}
    /\ called' = <<>>
    /\ run_success' = {}
    /\ run_written' = {}
    /\ prior_success' = prior_success \cup run_success
    /\ prior_written' = prior_written \cup run_written
    /\ interrupted' = "no"
    /\ UNCHANGED <<fs, marked, tampers>>

Next ==
    \/ ConnectOk \/ ConnectError \/ ScanFails \/ Scan \/ CheckEmpty
    \/ LoopNext \/ LoopEnd \/ Summary
    \/ EnterDenied \/ Classify \/ ManifestRejected \/ ManifestReady
    \/ InsertOk \/ InsertNoData \/ InsertError
    \/ UploadInvalid \/ UploadOk \/ UploadNoUrl \/ UploadError \/ Tamper \/ MediaDone
    \/ BackfillSkipped \/ UpdateOk \/ UpdateNoData \/ UpdateError
    \/ Finalize \/ WriteResult
    \/ InterruptInFolder \/ InterruptInMain
    \/ NextRun

\* the batch driver over NumFolders folders
Spec == Init /\ [][Next]_vars

\* process_single_folder over one folder of any content
SpecFolder == InitFolder /\ [][Next]_vars

TypeOK ==
    /\ pc \in {"connect", "scan", "scanned", "loop", "enter", "manifest", "insert",
               "media", "backfill", "finalize", "write", "summary", "done"}
    /\ run \in 1..MaxRuns
    /\ exit_code \in {Running, 0, 1}
    /\ attempt \in 0..(MaxRetries - 1)
    /\ idx \in 0..Len(folders_to_process)
    /\ Range(folders_to_process) \subseteq DOMAIN fs

(***************************************************************************)
(* Properties.                                                             *)
(***************************************************************************)
Folders == {id \in DOMAIN fs : fs[id].isdir}
HasSuccess(id) == Exists(fs[id], SuccessMarker)
HasFailed(id)  == Exists(fs[id], FailedMarker)

UploadedNames == {uploaded_images[i].filename : i \in 1..Len(uploaded_images)}
FailedNames   == {failed_images[i].filename : i \in 1..Len(failed_images)}
ErrorOf(name) == (CHOOSE i \in 1..Len(failed_images) : failed_images[i].filename = name)

\* the manifest stage has ended / the media stage has ended
AfterManifest == pc \in {"media", "backfill", "finalize", "write"}
AfterMedia    == pc \in {"backfill", "finalize", "write"}

\* C1, as stated: a folder that an earlier run classified as overall_success
\* is skipped by the later run (not in the scanner's result, not passed to
\* process_single_folder, no backend call), whatever the marker write did.
C1_SkippedWhateverTheWrite ==
    \A id \in prior_success :
        /\ id \notin Range(folders_to_process)
        /\ id \notin Range(called)
        /\ id \notin touched

\* C1, amended: a folder that an earlier run classified as overall_success
\* and whose write_result_file returned True is skipped by every later run:
\* it is not in the scanner's result, process_single_folder is not called on
\* it and no insert, update or upload call is made for it.
C1_SkippedOnceMarked ==
    \A id \in prior_written :
        /\ id \notin Range(folders_to_process)
        /\ id \notin Range(called)
        /\ id \notin touched

\* a later run has scanned a root with a folder that succeeded and was marked
C1_Witness ==
    /\ run > 1
    /\ pc = "scanned"
    /\ prior_written # {}

\* C2: right after the scan, no subfolder that contains upload_success.json
\* is in folders_to_process, whatever its mtime and its other files.
C2_SuccessMarkerExcluded ==
    pc = "scanned" =>
        \A id \in Folders : HasSuccess(id) => id \notin Range(folders_to_process)

\* the newest folder holds the marker and is left out; an older one is kept
C2_Witness ==
    /\ pc = "scanned"
    /\ \E id \in Folders, other \in Range(folders_to_process) :
          /\ HasSuccess(id)
          /\ fs[id].mtime > fs[other].mtime
          /\ Exists(fs[id], ImageName(1))

\* C3: right after the scan, every subfolder with upload_failed.json and
\* without upload_success.json is in folders_to_process; and when the loop is
\* exhausted every folder of folders_to_process was passed to
\* process_single_folder.
C3_FailedMarkerRetried ==
    /\ pc = "scanned" =>
          \A id \in Folders :
              HasFailed(id) /\ ~HasSuccess(id) => id \in Range(folders_to_process)
    /\ pc = "loop" /\ idx = Len(folders_to_process) =>
          Range(folders_to_process) \subseteq Range(called)

\* a folder marked failed by the first run is in process again in the second
C3_Witness ==
    /\ run = 2
    /\ pc = "manifest"
    /\ HasFailed(cur)
    /\ ~HasSuccess(cur)
    /\ cur \in marked

\* C4: at finalize, overall_success is: the manifest was inserted, no media
\* failed, and no media was classified or at least one was uploaded; and the
\* marker name is upload_success.json exactly when overall_success is true,
\* upload_failed.json otherwise.
C4_OverallSuccess ==
    pc = "write" =>
        /\ overall_success <=>
              /\ result_data.json_upload.success
              /\ result_data.image_upload.failed_uploads = 0
              /\ \/ result_data.image_upload.total_images = 0
                 \/ result_data.image_upload.successful_uploads > 0
        /\ result_data.json_upload.success <=> ("insert" \in made /\ records_inserted > 0)
        /\ (filename = SuccessMarker) <=> overall_success
        /\ (filename = FailedMarker) <=> ~overall_success

\* a folder with two uploaded images and an inserted manifest at finalize
C4_Witness ==
    /\ pc = "write"
    /\ overall_success
    /\ Len(uploaded_images) = 2
    /\ filename = SuccessMarker

\* C5, as stated, for the processed folders whose latest write_result_file
\* returned True: the folder holds exactly one of upload_success.json and
\* upload_failed.json, never both and never neither.
C5_ExactlyOneMarker ==
    \A id \in marked : HasSuccess(id) # HasFailed(id)

\* C6: no media file is touched before the manifest stage has ended, and once
\* the media stage has ended every classified media file has been through
\* upload_image_with_retry (it is in the uploaded or in the failed list),
\* whatever the manifest stage recorded.
C6_MediaIndependent ==
    /\ pc \in {"enter", "manifest", "insert"} =>
          /\ uploaded_images = <<>> /\ failed_images = <<>>
          /\ "upload" \notin made
          /\ retry_log.op # "upload"
    /\ AfterMedia => Range(image_files) \subseteq UploadedNames \cup FailedNames

\* no manifest and an image: the image was uploaded all the same
C6_Witness ==
    /\ pc = "write"
    /\ json_error = "No JSON files found in folder"
    /\ Len(uploaded_images) >= 1
    /\ ~overall_success

\* C7: with zero or several manifest files no insert call is made, the
\* manifest error is recorded and the function goes on to finalize, where
\* overall_success is false and the marker name is upload_failed.json.
C7_ManifestCountError ==
    /\ AfterManifest /\ Len(json_files) # 1 =>
          /\ "insert" \notin made
          /\ json_error # None
          /\ ~json_upload_success
    /\ pc = "write" /\ Len(json_files) # 1 =>
          /\ ~overall_success
          /\ filename = FailedMarker

\* two manifest files, and the folder reached finalize
C7_Witness ==
    /\ pc = "write"
    /\ Len(json_files) = 2
    /\ json_error = "Multiple JSON files found"
    /\ Len(uploaded_images) >= 1

\* C8: after the media stage each classified media file is in exactly one of
\* the uploaded and the failed list, once, so successful_uploads +
\* failed_uploads = total_images; during the stage the two lists hold exactly
\* the files before the current one.
C8_FanOut ==
    /\ AfterMedia =>
          /\ UploadedNames \cup FailedNames = Range(image_files)
          /\ UploadedNames \cap FailedNames = {}
          /\ result_data.image_upload.successful_uploads
               + result_data.image_upload.failed_uploads
               = result_data.image_upload.total_images
    /\ pc = "media" =>
          /\ UploadedNames \cup FailedNames = {image_files[i] : i \in 1..(img - 1)}
          /\ Len(uploaded_images) + Len(failed_images) = img - 1

\* the first image failed and the second was uploaded after it
C8_Witness ==
    /\ pc = "write"
    /\ Len(image_files) = 2
    /\ image_files[1] \in FailedNames
    /\ image_files[2] \in UploadedNames

\* the media file whose upload loop is the one in retry_log, and whether that
\* loop has ended
LoggedImage == image_files[retry_log.file]
LoggedUploadEnded == retry_log.op = "upload" /\ (retry_log.file < img \/ AfterMedia)

\* the messages upload_image_with_retry gives without an upload call
ValidationErrors ==
    {"File not found", "No read permission for file", "File is empty", "File too large"}

\* C9: a media file gets at most 3 upload calls; the waits are always a
\* prefix of 1 s, 2 s, one per failed call but the last; a file whose every
\* attempt raised has had exactly 3 calls and the waits 1 s, 2 s, and is in
\* the failed list.
C9_UploadRetry ==
    retry_log.op = "upload" =>
        /\ retry_log.calls <= 3
        /\ retry_log.sleeps \in {<<>>, <<1>>, <<1, 2>>}
        /\ Len(retry_log.sleeps) <= retry_log.calls
        /\ LoggedUploadEnded /\ retry_log.calls > 0 =>
              Len(retry_log.sleeps) < retry_log.calls
        /\ LoggedUploadEnded /\ LoggedImage \in FailedNames
              /\ failed_images[ErrorOf(LoggedImage)].error = "All upload attempts failed"
              => /\ retry_log.calls = 3
                 /\ retry_log.sleeps = <<1, 2>>
                 /\ LoggedImage \notin UploadedNames
        /\ LoggedUploadEnded /\ retry_log.calls = 3 /\ LoggedImage \notin UploadedNames
              => LoggedImage \in FailedNames

\* a file failed after three raising attempts
C9_Witness ==
    /\ LoggedUploadEnded
    /\ retry_log.calls = 3
    /\ retry_log.sleeps = <<1, 2>>
    /\ LoggedImage \in FailedNames
    /\ failed_images[ErrorOf(LoggedImage)].error = "All upload attempts failed"

\* the checks of upload_image_with_retry, read off the file itself
FailsValidation(name) ==
    \/ ~Exists(folder, name)
    \/ ~folder.files[name].readable
    \/ folder.files[name].size = 0
    \/ folder.files[name].size > 50 * 1024 * 1024

\* C10: a media file that is missing, unreadable, empty or larger than 50 MiB
\* when its upload starts is in the failed list with no upload call and no
\* wait, and every other classified file still gets its own upload.
C10_ValidationNotRetried ==
    /\ \A i \in 1..Len(image_files) :
          i < img \/ AfterMedia =>
              IF FailsValidation(image_files[i])
              THEN /\ image_files[i] \in FailedNames
                   /\ image_files[i] \notin UploadedNames
                   /\ failed_images[ErrorOf(image_files[i])].error \in ValidationErrors
              ELSE \/ image_files[i] \in UploadedNames
                   \/ /\ image_files[i] \in FailedNames
                      /\ failed_images[ErrorOf(image_files[i])].error \notin ValidationErrors
    /\ LoggedUploadEnded =>
          IF FailsValidation(LoggedImage)
          THEN retry_log.calls = 0 /\ retry_log.sleeps = <<>>
          ELSE retry_log.calls >= 1

\* an image above the size limit failed at once, the image after it was uploaded
C10_Witness ==
    /\ pc = "write"
    /\ Len(image_files) = 2
    /\ folder.files[image_files[1]].size > MaxFileSize
    /\ failed_images = <<[filename |-> image_files[1], error |-> "File too large"]>>
    /\ image_files[2] \in UploadedNames
    /\ "upload" \in made

\* the insert loop of the folder has ended and no later loop has started
InsertEnded == AfterManifest /\ retry_log.op = "insert"

\* C11: when the insert raised on the first and the second attempt and the
\* third returned rows, the waits were 1 s and then 2 s, records_inserted is
\* the number of rows returned, no error is recorded and the manifest stage
\* is successful (json_upload.success in the result data).
C11_InsertThirdAttempt ==
    InsertEnded /\ retry_log.calls = 3 /\ retry_log.rows >= 1 =>
        /\ retry_log.sleeps = <<1, 2>>
        /\ json_upload_success
        /\ records_inserted = retry_log.rows
        /\ json_error = None
        /\ result_data.json_upload.success
        /\ result_data.json_upload.records_inserted = retry_log.rows

\* two raising attempts, then two rows returned
C11_Witness ==
    /\ InsertEnded
    /\ retry_log.calls = 3
    /\ retry_log.sleeps = <<1, 2>>
    /\ retry_log.rows = 2
    /\ records_inserted = 2
    /\ json_upload_success

\* C12: the manifest stage is successful only if an insert call returned at
\* least one row; an insert that returns without error and with zero rows
\* ends the stage failed, with records_inserted = 0 and an error recorded,
\* and is not retried.
C12_SuccessNeedsRows ==
    /\ json_upload_success => "insert" \in made /\ records_inserted >= 1
    /\ InsertEnded =>
          /\ json_upload_success <=> retry_log.rows >= 1
          /\ retry_log.rows = 0 =>
                /\ ~json_upload_success
                /\ records_inserted = 0
                /\ json_error # None
          /\ json_error = "Database insert failed: No data returned from insert operation"
                => /\ retry_log.rows = 0
                   /\ Len(retry_log.sleeps) = retry_log.calls - 1

\* one insert call that returned no rows: the stage failed
C12_Witness ==
    /\ InsertEnded
    /\ retry_log.calls = 1
    /\ retry_log.rows = 0
    /\ json_error = "Database insert failed: No data returned from insert operation"
    /\ ~json_upload_success

\* the public URLs of the uploaded media, in upload order
UploadedUrls == [i \in 1..Len(uploaded_images) |-> uploaded_images[i].public_url]

\* C13: no update call is made before the back-fill stage; once the stage has
\* ended an update call was made for the folder if and only if the manifest
\* insert succeeded and at least one media file was uploaded; and every
\* update call is for the rows whose folder_name is this folder's, with the
\* public URLs of the uploaded media, in upload order, as its payload.
C13_Backfill ==
    /\ pc \in {"enter", "manifest", "insert", "media"} => "update" \notin made
    /\ pc \in {"finalize", "write"} =>
          ("update" \in made <=> json_upload_success /\ uploaded_images # <<>>)
    /\ "update" \in made =>
          /\ retry_log.op = "update"
          /\ retry_log.args.folder_name = cur
          /\ retry_log.args.images = UploadedUrls
          /\ retry_log.args.images # <<>>

\* an update call with the URLs of two uploaded images
C13_Witness ==
    /\ pc = "finalize"
    /\ retry_log.op = "update"
    /\ Len(retry_log.args.images) = 2
    /\ retry_log.args.images[1] # retry_log.args.images[2]
    /\ json_upload_success

\* process_single_folder returns to main's loop
Returns == pc = "write" /\ pc' = "loop"

\* C14: overall_success and the marker filename are computed from the
\* manifest flag and the media lists alone, and the value counted by the
\* driver is overall_success, for every outcome of the back-fill update; a
\* folder whose update was issued is successful exactly when no media failed.
C14_BackfillNeverDecides ==
    [][/\ pc = "finalize" /\ pc' = "write" =>
             /\ overall_success' = (/\ json_upload_success
                                    /\ failed_images = <<>>
                                    /\ (image_files = <<>> \/ uploaded_images # <<>>))
             /\ filename' = IF overall_success' THEN SuccessMarker ELSE FailedMarker
       /\ pc = "write" /\ update_result # "not run" =>
             overall_success = (failed_images = <<>>)
       /\ Returns =>
             /\ successful_folders' = successful_folders + (IF overall_success THEN 1 ELSE 0)
             /\ failed_folders' = failed_folders + (IF overall_success THEN 0 ELSE 1)]_vars

\* every update attempt failed and the folder is successful all the same
C14_Witness ==
    /\ pc = "write"
    /\ update_result = "All update attempts failed"
    /\ overall_success
    /\ filename = SuccessMarker

\* C15: the value process_single_folder returns is the overall_success it
\* computed before the write, when write_result_file returned True and when
\* it returned False alike.
C15_WriteFailureKeepsResult ==
    [][Returns =>
          LET written  == cur \in marked'
              returned == cur \in run_success'
          IN  /\ written => (returned <=> overall_success)
              /\ ~written => (returned <=> overall_success)
              /\ returned <=> successful_folders' = successful_folders + 1
              /\ ~returned <=> failed_folders' = failed_folders + 1]_vars

\* a folder returned True although its marker could not be written
C15_Witness ==
    /\ pc = "loop"
    /\ idx >= 1
    /\ folders_to_process[idx] \in run_success
    /\ folders_to_process[idx] \notin marked
    /\ ~HasSuccess(folders_to_process[idx])
    /\ successful_folders >= 1

\* C16: right after the scan, any two consecutive entries of
\* folders_to_process have modification times in descending order (greater
\* or equal), for every root and every listing order.
C16_SortedByMtimeDesc ==
    pc = "scanned" =>
        \A i \in 1..(Len(folders_to_process) - 1) :
            fs[folders_to_process[i]].mtime >= fs[folders_to_process[i + 1]].mtime

\* two folders of different modification times, the newer one first
C16_Witness ==
    /\ pc = "scanned"
    /\ Len(folders_to_process) = 2
    /\ fs[folders_to_process[1]].mtime > fs[folders_to_process[2]].mtime
    /\ folders_to_process[1] > folders_to_process[2]

\* C17, as stated: the scanner's result is the same for every order in which
\* the directory listing may enumerate the root.
C17_Deterministic ==
    pc = "scanned" =>
        \A items \in Listings(DOMAIN fs) : ScanResult(fs, items) = folders_to_process

\* the parsed content of the single manifest file of the folder
ManifestContent == folder.files[json_files[1]].content

\* an array with at least one object element and at least one other element
MixedArray(content) ==
    /\ content.t = "list"
    /\ \E i \in 1..Len(content.v) : content.v[i].t = "dict"
    /\ \E i \in 1..Len(content.v) : content.v[i].t # "dict"

\* the object elements of a manifest: the object itself, or the objects of the array
ObjectsOf(content) ==
    IF content.t = "dict" THEN <<content>>
    ELSE SelectSeq(content.v, LAMBDA item : item.t = "dict")

\* C18, as stated: when the single manifest is an array with object and
\* non-object elements, the manifest stage makes an insert call, with one
\* record per object element, and records no validation error.
C18_MixedArrayInserted ==
    AfterManifest /\ Len(json_files) = 1 /\ MixedArray(ManifestContent) =>
        /\ "insert" \in made
        /\ json_error # "Invalid JSON array: all items must be objects"
        /\ InsertEnded => Len(retry_log.args) = Len(ObjectsOf(ManifestContent))

\* C19: every record passed to the insert holds, in its data field, the
\* manifest object it was built from: the same keys with the same values,
\* nothing added and nothing removed; one record per object, in order.
C19_RawDataRoundTrip ==
    retry_log.op = "insert" =>
        LET objs == ObjectsOf(ManifestContent)
            recs == retry_log.args
        IN  /\ Len(recs) = Len(objs)
            /\ \A i \in 1..Len(recs) :
                  /\ recs[i].data.t = "dict"
                  /\ \A p \in objs[i].v : p \in recs[i].data.v
                  /\ \A p \in recs[i].data.v : p \in objs[i].v
                  /\ recs[i].data = objs[i]

\* the two objects of an array were passed to the insert, the first one with
\* a key that has no column of its own
C19_Witness ==
    /\ retry_log.op = "insert"
    /\ ManifestContent.t = "list"
    /\ Len(retry_log.args) = 2
    /\ retry_log.args[1].data = ObjFull
    /\ retry_log.args[2].data = ObjBare
    /\ HasKey(retry_log.args[1].data, "vendor")

\* C20, as stated: a run that got a KeyboardInterrupt while a folder of the
\* batch loop was in process ends with a non-zero status.
C20_InterruptNonZero ==
    pc = "done" /\ interrupted = "folder" => exit_code # 0

\* C21, as stated: when a KeyboardInterrupt arrived while a folder was in
\* process, the run ends with that folder's marker file written.
C21_InterruptedFolderFinished ==
    interrupted = "folder" /\ pc \in {"summary", "done"} =>
        HasSuccess(cur) \/ HasFailed(cur)

\* C22: a run that passed setup and was not cancelled returns 0 from the
\* empty check when the scanner found nothing, and from the summary it
\* returns 0 if and only if every folder passed to process_single_folder
\* returned True, and 1 if at least one did not.
C22_ExitCode ==
    [][/\ pc = "scanned" /\ pc' = "done" /\ interrupted' = "no" =>
             folders_to_process = <<>> /\ exit_code' = 0
       /\ pc = "summary" /\ pc' = "done" /\ interrupted = "no" /\ interrupted' = "no" =>
             /\ exit_code' \in {0, 1}
             /\ exit_code' = 0 <=> Range(called) \subseteq run_success
             /\ exit_code' = 1 <=> Range(called) \ run_success # {}]_vars

\* two folders were processed, one returned True and one False: main returned 1
C22_Witness ==
    /\ pc = "done"
    /\ interrupted = "no"
    /\ exit_code = 1
    /\ Len(called) = 2
    /\ Cardinality(run_success) = 1
    /\ successful_folders = 1
    /\ failed_folders = 1

\* main is in its setup: validating the connection or scanning the root
InSetup == pc \in {"connect", "scan"}

\* C23: during setup process_single_folder has not been called, no insert,
\* update or upload call has been made and no file is written; the scan is
\* reached only with a validated connection; a third failed connection
\* attempt ends the run with status 1, and so does a root that is missing,
\* no directory or unreadable.
C23_FatalSetupAborts ==
    [][/\ InSetup =>
             /\ called = <<>> /\ called' = <<>>
             /\ touched = {} /\ touched' = {}
             /\ made = {} /\ made' = {}
             /\ fs' = fs
       /\ pc = "scan" => retry_log.op = "connect" /\ retry_log.rows = 1
       /\ pc = "connect" /\ retry_log'.calls = 3 /\ retry_log'.rows = 0 =>
             pc' = "done" /\ exit_code' = 1
       /\ pc = "connect" /\ pc' = "done" /\ interrupted' = "no" =>
             /\ retry_log'.calls = 3
             /\ retry_log'.rows = 0
             /\ exit_code' = 1
       /\ pc = "scan" /\ pc' = "done" /\ interrupted' = "no" => exit_code' = 1]_vars

\* three connection attempts failed: main returned 1 with a folder left untouched
C23_Witness ==
    /\ pc = "done"
    /\ interrupted = "no"
    /\ exit_code = 1
    /\ retry_log.op = "connect"
    /\ retry_log.calls = 3
    /\ retry_log.rows = 0
    /\ called = <<>>
    /\ touched = {}
    /\ \E id \in Folders : ~HasSuccess(id) /\ ~HasFailed(id)

\* main is in its loop or has just left it
InLoop == pc = "loop" \/ InFolder \/ pc = "summary"

\* C24: the folders passed to process_single_folder are always the first idx
\* entries of the scanner's result, in its order and each once; when the loop
\* ends without a KeyboardInterrupt they are all of them, whatever the
\* earlier folders returned; and while a folder is in process every earlier
\* one has returned and been counted, so backend calls are made only for
\* folders already passed and only inside process_single_folder.
C24_BatchNotHalted ==
    /\ InLoop =>
          /\ called = SubSeq(folders_to_process, 1, idx)
          /\ \A i, j \in 1..Len(called) : called[i] = called[j] => i = j
          /\ touched \subseteq Range(called)
    /\ pc = "summary" /\ interrupted = "no" =>
          /\ called = folders_to_process
          /\ successful_folders + failed_folders = Len(folders_to_process)
    /\ InFolder => successful_folders + failed_folders = idx - 1
    /\ made # {} => InFolder

\* the first folder returned False and the second was processed after it
C24_Witness ==
    /\ pc = "summary"
    /\ interrupted = "no"
    /\ Len(called) = 2
    /\ called[1] \notin run_success
    /\ called[2] \in run_success
    /\ touched = {called[2]}

\* C25, as stated: when the loop has ended, for any reason, every folder
\* counted as processed is counted as successful or as failed, and no more
\* folders are counted than the scanner returned.
C25_CountersAddUp ==
    pc = "summary" =>
        /\ total_folders_processed = successful_folders + failed_folders
        /\ total_folders_processed <= Len(folders_to_process)

\* C26: in the result data of every folder that reaches finalize the manifest
\* stage has exactly one result: json_upload.success is true if and only if
\* json_upload.error is None; and summary.successful_operations +
\* summary.failed_operations = 1 + image_upload.total_images.
C26_ManifestOneResult ==
    pc \in {"finalize", "write"} =>
        /\ result_data.json_upload.success <=> result_data.json_upload.error = None
        /\ result_data.summary.successful_operations
             + result_data.summary.failed_operations
             = 1 + result_data.image_upload.total_images

\* a failed manifest, one uploaded and one failed image: 1 + 2 operations
C26_Witness ==
    /\ pc = "write"
    /\ ~result_data.json_upload.success
    /\ result_data.json_upload.error # None
    /\ result_data.image_upload.total_images = 2
    /\ result_data.summary.successful_operations = 1
    /\ result_data.summary.failed_operations = 2

====
